---- MODULE Spec2Model ----
(***************************************************************************)
(* A model of md2dir (src/md2dir.py): Markdown text is scanned for fenced  *)
(* code blocks, a directory-tree block is parsed into paths, every other   *)
(* block gets a filename, blocks and names are filtered, paired and        *)
(* written below an output directory.                                      *)
(*                                                                         *)
(* Text is a sequence of characters, each character a one-element string.  *)
(* The characters the module language cannot spell in a string are tokens: *)
(* BQ the backquote, VERT, TEE, ELL and HORZ the four box-drawing          *)
(* characters of a directory tree.                                         *)
(***************************************************************************)
EXTENDS Integers, Sequences, FiniteSets, TLC

VARIABLES pc, args, markdown_content, special_paths, code_blocks,
          comments_filenames, special_block_index, selected_filenames,
          file_assignments, fs, exit_status, tree, sections

vars == <<pc, args, markdown_content, special_paths, code_blocks,
          comments_filenames, special_block_index, selected_filenames,
          file_assignments, fs, exit_status, tree, sections>>

(***************************************************************************)
(* Characters                                                              *)
(***************************************************************************)
NL == "\n"
SP == " "
\* U+0060, the backquote
BT == "BQ"
DOT == "."
SLASH == "/"
\* U+2502, U+251C, U+2514, U+2500
VERT == "VERT"
TEE == "TEE"
ELL == "ELL"
HORZ == "HORZ"

FENCE == <<BT, BT, BT>>

\* str.strip / \s : the whitespace characters
IsSpace(c) == c \in {" ", "\n", "\t", "\r"}

\* \w of the regular expressions
WordChars ==
  {"a","b","c","d","e","f","g","h","i","j","k","l","m","n","o","p","q","r",
   "s","t","u","v","w","x","y","z","0","1","2","3","4","5","6","7","8","9","_"}

\* [\w+-] : a character of a fence language tag
IsLangChar(c) == c \in WordChars \cup {"+", "-"}

(***************************************************************************)
(* String primitives of the Python runtime                                 *)
(***************************************************************************)
Min(a, b) == IF a < b THEN a ELSE b

\* s[i:] with 1-based i
From(s, i) == SubSeq(s, i, Len(s))

\* s.startswith(p, i-1)
StartsWithAt(s, i, p) ==
  /\ i >= 1
  /\ i + Len(p) - 1 <= Len(s)
  /\ \A k \in 1..Len(p) : s[i + k - 1] = p[k]

RECURSIVE Find(_, _, _)
\* s.find(p, i-1) + 1 : the first position >= i where p occurs, 0 if none
Find(s, p, i) ==
  IF i + Len(p) - 1 > Len(s) THEN 0
  ELSE IF StartsWithAt(s, i, p) THEN i
  ELSE Find(s, p, i + 1)

\* c in s
Contains(s, c) == \E k \in 1..Len(s) : s[k] = c

RECURSIVE FirstNonSpace(_, _)
\* the first position >= i of s that holds no whitespace, Len(s)+1 if none
FirstNonSpace(s, i) ==
  IF i > Len(s) THEN Len(s) + 1
  ELSE IF ~IsSpace(s[i]) THEN i
  ELSE FirstNonSpace(s, i + 1)

RECURSIVE LastNonSpace(_, _)
\* the last position <= i of s that holds no whitespace, 0 if none
LastNonSpace(s, i) ==
  IF i < 1 THEN 0
  ELSE IF ~IsSpace(s[i]) THEN i
  ELSE LastNonSpace(s, i - 1)

\* s.lstrip()
LStrip(s) == From(s, FirstNonSpace(s, 1))

\* s.rstrip()
RStrip(s) == SubSeq(s, 1, LastNonSpace(s, Len(s)))

\* s.strip()
Strip(s) == LStrip(RStrip(s))

RECURSIVE Split(_, _)
\* s.split(sep) for a one-character sep
Split(s, sep) ==
  LET k == Find(s, <<sep>>, 1)
  IN IF k = 0 THEN <<s>>
     ELSE <<SubSeq(s, 1, k - 1)>> \o Split(From(s, k + 1), sep)

\* s.splitlines() : as split on the line break, without the empty piece
\* that follows a final line break
SplitLines(s) ==
  IF s = <<>> THEN <<>>
  ELSE LET parts == Split(s, NL)
       IN IF parts[Len(parts)] = <<>>
          THEN SubSeq(parts, 1, Len(parts) - 1) ELSE parts

RECURSIVE Join(_, _)
\* sep.join(parts)
Join(parts, sep) ==
  IF parts = <<>> THEN <<>>
  ELSE IF Len(parts) = 1 THEN parts[1]
  ELSE parts[1] \o sep \o Join(Tail(parts), sep)

\* str(n) for 0 <= n < 100
Digits == <<"0","1","2","3","4","5","6","7","8","9">>
Str(n) == IF n < 10 THEN <<Digits[n + 1]>>
          ELSE <<Digits[(n \div 10) + 1], Digits[(n % 10) + 1]>>

(***************************************************************************)
(* parse_tree                                                              *)
(***************************************************************************)
\* re.search(r"── (.+)", line) : the position of the name, 0 if no match
ItemNameStart(line) ==
  LET k == Find(line, <<HORZ, HORZ, SP>>, 1)
  IN IF k = 0 \/ k + 3 > Len(line) THEN 0 ELSE k + 3

IndentGroups == {<<VERT, SP, SP, SP>>, <<SP, SP, SP, SP>>}

RECURSIVE CountDepth(_, _)
\* the while loop over the line: a 4-character indentation group found at i
\* counts one level and is stepped over, anything else is stepped over by one
CountDepth(line, i) ==
  IF i > Len(line) THEN 0
  ELSE IF \E g \in IndentGroups : StartsWithAt(line, i, g)
       THEN 1 + CountDepth(line, i + 4)
       ELSE CountDepth(line, i + 1)

\* ParseTreeLine without the pop of the stack down to the depth
ParseTreeLineNoPop(st, raw) ==
  LET line == RStrip(raw)
      at == ItemNameStart(line)
  IN IF at = 0 THEN st
     ELSE LET item_name == From(line, at)
              path == Join(st.stack \o <<item_name>>, <<SLASH>>)
          IN [stack |-> IF Contains(item_name, DOT) THEN st.stack
                        ELSE Append(st.stack, item_name),
              result |-> Append(st.result, path)]

\* One turn of parse_tree's loop over the lines; st = [stack, result]
ParseTreeLine(st, raw) ==
  LET line == RStrip(raw)
      at == ItemNameStart(line)
  IN IF at = 0 THEN st
     ELSE LET item_name == From(line, at)
              depth == CountDepth(line, 1)
              stack == SubSeq(st.stack, 1, Min(Len(st.stack), depth))
              path == Join(stack \o <<item_name>>, <<SLASH>>)
          IN [stack |-> IF Contains(item_name, DOT) THEN stack
                        ELSE Append(stack, item_name),
              result |-> Append(st.result, path)]

RECURSIVE ParseTreeLines(_, _)
ParseTreeLines(st, lines) ==
  IF lines = <<>> THEN st
  ELSE ParseTreeLines(ParseTreeLine(st, Head(lines)), Tail(lines))

parse_tree(ascii_tree_str) ==
  ParseTreeLines([stack |-> <<>>, result |-> <<>>],
                 Split(Strip(ascii_tree_str), NL)).result

\* parse_special_structure returns parse_tree's result; the rest of its body
\* is never reached
parse_special_structure(special_block_content) ==
  parse_tree(special_block_content)

(***************************************************************************)
(* extract_filename_from_line and the regular expressions of               *)
(* parse_markdown_code_blocks                                              *)
(***************************************************************************)
\* the pattern BQ ([^BQ]+) BQ : of re.search tried at position i: the closing backtick of a
\* non-empty quoted run that a colon follows, 0 if the pattern fails at i
QuotedNameEnd(line, i) ==
  IF line[i] # BT THEN 0
  ELSE LET j == Find(line, <<BT>>, i + 1)
       IN IF j >= i + 2 /\ j + 1 <= Len(line) /\ line[j + 1] = ":"
          THEN j ELSE 0

\* match.group(1) of the leftmost match; <<>> stands for None (the group
\* is never empty)
extract_filename_from_line(line) ==
  LET hits == {i \in 1..Len(line) : QuotedNameEnd(line, i) # 0}
  IN IF hits = {} THEN <<>>
     ELSE LET i == CHOOSE k \in hits : \A h \in hits : k <= h
          IN SubSeq(line, i + 1, QuotedNameEnd(line, i) - 1)

RECURSIVE LangEnd(_, _)
\* the end of the greedy run [\w+-]* that starts at j
LangEnd(text, j) ==
  IF j > Len(text) THEN Len(text) + 1
  ELSE IF ~IsLangChar(text[j]) THEN j
  ELSE LangEnd(text, j + 1)

NoMatch == [start |-> 0]

\* code_block_pattern tried at position i: the fence, the language run, a line
\* break, then the shortest body that a fence follows.  start is the position
\* of the match, end the position after it.
CodeBlockMatchAt(text, i) ==
  IF ~StartsWithAt(text, i, FENCE) THEN NoMatch
  ELSE LET k == LangEnd(text, i + 3)
       IN IF k > Len(text) \/ text[k] # NL THEN NoMatch
          ELSE LET c == Find(text, FENCE, k + 1)
               IN IF c = 0 THEN NoMatch
                  ELSE [start |-> i,
                        lang |-> SubSeq(text, i + 3, k - 1),
                        content |-> SubSeq(text, k + 1, c - 1),
                        end |-> c + 3]

RECURSIVE FindIter(_, _)
\* list(code_block_pattern.finditer(markdown_content)) from position pos on
FindIter(text, pos) ==
  LET i == Find(text, FENCE, pos)
  IN IF i = 0 THEN <<>>
     ELSE LET m == CodeBlockMatchAt(text, i)
          IN IF m.start = 0 THEN FindIter(text, i + 1)
             ELSE <<m>> \o FindIter(text, m.end)

\* special_block_pattern.match(match.group(0)): the fence, the language run,
\* a line break, a dot, then some body that a fence follows
SpecialBlockMatches(group0) ==
  /\ StartsWithAt(group0, 1, FENCE)
  /\ LET k == LangEnd(group0, 4)
     IN /\ k + 1 <= Len(group0)
        /\ group0[k] = NL
        /\ group0[k + 1] = DOT
        /\ Find(group0, FENCE, k + 2) # 0

\* the comment openers of comment_line_pattern, in the order it tries them
Openers == << <<"/", "/">>, <<"#">>, <<"<", "!", "-", "-">>, <<"/", "*">>, <<"%">> >>

\* comment_line_pattern.match(first_line).group('filenames'); <<>> stands for
\* no match (the group is never empty)
CommentFilenames(first_line) ==
  LET p == FirstNonSpace(first_line, 1)
      ops == {n \in 1..Len(Openers) : StartsWithAt(first_line, p, Openers[n])}
  IN IF ops = {} THEN <<>>
     ELSE LET op == Openers[CHOOSE n \in ops : \A h \in ops : n <= h]
              q == p + Len(op)
              r == FirstNonSpace(first_line, q)
          IN IF r <= Len(first_line) THEN From(first_line, r)
             ELSE IF r > q THEN From(first_line, Len(first_line))
             ELSE <<>>

\* whether the separator \s+or\s+ matches at position i of s
OrSeparatorAt(s, i) ==
  /\ IsSpace(s[i])
  /\ LET j == FirstNonSpace(s, i)
     IN /\ StartsWithAt(s, j, <<"o", "r">>)
        /\ j + 2 <= Len(s)
        /\ IsSpace(s[j + 2])

\* re.split(r'\s+or\s+', s, maxsplit=1)[0]
BeforeOr(s) ==
  LET hits == {i \in 1..Len(s) : OrSeparatorAt(s, i)}
  IN IF hits = {} THEN s
     ELSE SubSeq(s, 1, (CHOOSE k \in hits : \A h \in hits : k <= h) - 1)

(***************************************************************************)
(* parse_markdown_code_blocks                                              *)
(***************************************************************************)
Plaintext == <<"p", "l", "a", "i", "n", "t", "e", "x", "t">>

\* the languages whose synthesized comment opens with two slashes
SlashLanguages ==
  { <<"j", "a", "v", "a", "s", "c", "r", "i", "p", "t">>,
    <<"t", "y", "p", "e", "s", "c", "r", "i", "p", "t">>,
    <<"j", "s">>, <<"t", "s">> }

\* f"anonymous-{idx}"
AnonymousName(idx) ==
  <<"a", "n", "o", "n", "y", "m", "o", "u", "s", "-">> \o Str(idx)

\* how many lines above the fence are searched for a name
ContextLines == 3

\* preceding_text.splitlines()[-3:]
PrecedingLines(text, start) ==
  LET lines == SplitLines(SubSeq(text, 1, start - 1))
  IN SubSeq(lines,
            IF Len(lines) > ContextLines THEN Len(lines) - ContextLines + 1 ELSE 1,
            Len(lines))

RECURSIVE ContextFilename(_)
\* the loop over reversed(preceding_lines): the nearest line that yields a
\* name decides; <<>> stands for None
ContextFilename(lines) ==
  IF lines = <<>> THEN <<>>
  ELSE LET extracted == extract_filename_from_line(lines[Len(lines)])
       IN IF extracted # <<>> THEN extracted
          ELSE ContextFilename(SubSeq(lines, 1, Len(lines) - 1))

NoneIndex == -1

ParseStart ==
  [special_paths |-> <<>>, code_blocks |-> <<>>,
   comments_filenames |-> <<>>, special_block_index |-> NoneIndex]

\* content.split('\n', 1)[0].rstrip()
FirstLine(content) == RStrip(Split(content, NL)[1])

\* FilenameSource with the lines above the fence asked before the comment
FilenameSourceContextFirst(text, m) ==
  IF ContextFilename(PrecedingLines(text, m.start)) # <<>> THEN "context"
  ELSE IF CommentFilenames(FirstLine(m.content)) # <<>> THEN "comment"
  ELSE "fallback"

\* Where a content block's filename comes from: the first-line comment if
\* the pattern matches it, else the lines above the fence if one yields a
\* name, else the fallback
FilenameSource(text, m) ==
  IF CommentFilenames(FirstLine(m.content)) # <<>> THEN "comment"
  ELSE IF ContextFilename(PrecedingLines(text, m.start)) # <<>> THEN "context"
  ELSE "fallback"

\* FallbackIndex counting the content blocks only
FallbackIndexAmongContent(acc, idx) == Len(acc.code_blocks)

\* the number in the fallback name: the match's number among all matches
FallbackIndex(acc, idx) == idx

\* One turn of the loop over the matches: match m is number idx
ParseBlock(acc, text, m, idx) ==
  LET language == IF m.lang # <<>> THEN Strip(m.lang) ELSE Plaintext
      content == m.content
      source == FilenameSource(text, m)
  IN IF SpecialBlockMatches(SubSeq(text, m.start, m.end - 1))
     THEN [acc EXCEPT !.special_paths = parse_special_structure(content),
                      !.special_block_index = idx]
     ELSE IF source = "comment"
     THEN LET filenames == CommentFilenames(FirstLine(content))
          IN [acc EXCEPT
                !.comments_filenames = Append(@, Strip(BeforeOr(filenames))),
                !.code_blocks = Append(@, [language |-> language,
                                           content |-> content])]
     ELSE IF source = "context"
     THEN LET filename == ContextFilename(PrecedingLines(text, m.start))
              comment_prefix == IF language \in SlashLanguages
                                THEN <<"/", "/">> ELSE <<"#">>
              modified_content ==
                comment_prefix \o <<SP>> \o filename \o <<NL>> \o content
          IN [acc EXCEPT
                !.code_blocks = Append(@, [language |-> language,
                                           content |-> modified_content]),
                !.comments_filenames = Append(@, filename)]
     ELSE [acc EXCEPT
             !.code_blocks = Append(@, [language |-> language,
                                        content |-> content]),
             !.comments_filenames =
                Append(@, AnonymousName(FallbackIndex(acc, idx)))]

RECURSIVE ParseBlocks(_, _, _, _)
\* for idx, match in enumerate(matches), from match number idx on
ParseBlocks(acc, text, matches, idx) ==
  IF idx >= Len(matches) THEN acc
  ELSE ParseBlocks(ParseBlock(acc, text, matches[idx + 1], idx),
                   text, matches, idx + 1)

\* the four values parse_markdown_code_blocks returns
parse_markdown_code_blocks(text) ==
  ParseBlocks(ParseStart, text, FindIter(text, 1), 0)

(***************************************************************************)
(* The exclusion filters and the assignment                                *)
(***************************************************************************)
\* whether x is one of the elements of the list s
InList(x, s) == \E k \in 1..Len(s) : s[k] = x

RECURSIVE KeepPaths(_, _)
KeepPaths(paths, excludes) ==
  IF paths = <<>> THEN <<>>
  ELSE (IF InList(Head(paths), excludes) THEN <<>> ELSE <<Head(paths)>>)
         \o KeepPaths(Tail(paths), excludes)

\* excludes = <<>> stands for None (the option was not given)
filter_excluded_paths(paths, excludes) ==
  IF excludes = <<>> THEN paths ELSE KeepPaths(paths, excludes)

RECURSIVE KeepBlocks(_, _, _)
\* the comprehension over enumerate(code_blocks), from index idx on
KeepBlocks(blocks, exclude_indices, idx) ==
  IF idx >= Len(blocks) THEN <<>>
  ELSE (IF InList(idx, exclude_indices) THEN <<>> ELSE <<blocks[idx + 1]>>)
         \o KeepBlocks(blocks, exclude_indices, idx + 1)

filter_excluded_blocks(blocks, exclude_indices) ==
  IF exclude_indices = <<>> THEN blocks
  ELSE KeepBlocks(blocks, exclude_indices, 0)

RECURSIVE IntOf(_)
\* int(s) for a run of decimal digits
IntOf(s) ==
  IF s = <<>> THEN 0
  ELSE 10 * IntOf(SubSeq(s, 1, Len(s) - 1))
         + ((CHOOSE d \in 1..10 : Digits[d] = s[Len(s)]) - 1)

RECURSIVE IntsOf(_)
IntsOf(parts) ==
  IF parts = <<>> THEN <<>>
  ELSE <<IntOf(Strip(Head(parts)))>> \o IntsOf(Tail(parts))

\* [int(idx.strip()) for idx in args.exclude_block.split(",")], the empty
\* list when the option was not given (<<>>)
UserExcludeIndices(exclude_block) ==
  IF exclude_block = <<>> THEN <<>> ELSE IntsOf(Split(exclude_block, ","))

\* main's exclude_indices: the user's, then the structure block's if any
ExcludeIndices(exclude_block, special_index) ==
  UserExcludeIndices(exclude_block)
    \o (IF special_index # NoneIndex THEN <<special_index>> ELSE <<>>)

\* DictSet keeping the value a key already has
DictSetFirstWins(d, key, value) ==
  IF \E k \in 1..Len(d) : d[k].path = key THEN d
  ELSE Append(d, [path |-> key, block |-> value])

\* file_assignments[file_path] = code_block on a dict kept as the list of its
\* items in insertion order
DictSet(d, key, value) ==
  IF \E k \in 1..Len(d) : d[k].path = key
  THEN [k \in 1..Len(d) |->
          IF d[k].path = key THEN [path |-> key, block |-> value] ELSE d[k]]
  ELSE Append(d, [path |-> key, block |-> value])

RECURSIVE AssignFrom(_, _, _, _)
AssignFrom(d, file_paths, blocks, k) ==
  IF k > Min(Len(file_paths), Len(blocks)) THEN d
  ELSE AssignFrom(DictSet(d, file_paths[k], blocks[k]), file_paths, blocks, k + 1)

\* the loop over zip(file_paths, code_blocks)
assign_blocks_to_files(file_paths, blocks) ==
  AssignFrom(<<>>, file_paths, blocks, 1)

(***************************************************************************)
(* write_files and the file system below the working directory             *)
(***************************************************************************)
ROOT == <<SLASH>>
UP == <<DOT, DOT>>

RECURSIVE Resolve(_, _)
\* the place a list of path segments names, from place at: a segment ".."
\* climbs to the parent, the root is its own parent, and above the working
\* directory the climb is kept
Resolve(at, segs) ==
  IF segs = <<>> THEN at
  ELSE LET seg == Head(segs)
           next == IF seg = <<>> \/ seg = <<DOT>> THEN at
                   ELSE IF seg # UP THEN Append(at, seg)
                   ELSE IF at = <<>> \/ at[Len(at)] = UP THEN Append(at, UP)
                   ELSE IF at = <<ROOT>> THEN at
                   ELSE SubSeq(at, 1, Len(at) - 1)
       IN Resolve(next, Tail(segs))

\* the place of a path: an absolute path starts at the root
PlaceOf(path) ==
  Resolve(IF StartsWithAt(path, 1, <<SLASH>>) THEN <<ROOT>> ELSE <<>>,
          Split(path, SLASH))

\* output_dir / file_path: an absolute file_path replaces output_dir
FullPath(output_dir, file_path) ==
  IF StartsWithAt(file_path, 1, <<SLASH>>) THEN file_path
  ELSE output_dir \o <<SLASH>> \o file_path

\* the directories from a place up to the working directory or the root
Ancestors(place) == {SubSeq(place, 1, n) : n \in 1..(Len(place) - 1)}

EmptyFs == [files |-> <<>>, dirs |-> {}, failed |-> FALSE]

\* One turn of write_files' loop: the parent directories are made, which
\* fails if one of them is a file, and the file is opened for writing, which
\* fails if it is a directory
WriteOne(f, output_dir, item) ==
  LET place == PlaceOf(FullPath(output_dir, item.path))
      isFile(q) == \E k \in 1..Len(f.files) : f.files[k].place = q
  IN IF f.failed THEN f
     ELSE IF \E q \in Ancestors(place) : isFile(q)
     THEN [f EXCEPT !.failed = TRUE,
                    !.dirs = @ \cup {q \in Ancestors(place) :
                                       \A n \in 1..Len(q) : ~isFile(SubSeq(q, 1, n))}]
     ELSE IF place \in f.dirs \/ place = <<>> \/ place = <<ROOT>>
     THEN [f EXCEPT !.failed = TRUE, !.dirs = @ \cup Ancestors(place)]
     ELSE [files |-> IF isFile(place)
                     THEN [k \in 1..Len(f.files) |->
                             IF f.files[k].place = place
                             THEN [place |-> place, content |-> item.block.content]
                             ELSE f.files[k]]
                     ELSE Append(f.files, [place |-> place,
                                           content |-> item.block.content]),
           dirs |-> f.dirs \cup Ancestors(place),
           failed |-> FALSE]

RECURSIVE WriteFrom(_, _, _, _)
WriteFrom(f, output_dir, assignments, k) ==
  IF k > Len(assignments) THEN f
  ELSE WriteFrom(WriteOne(f, output_dir, assignments[k]), output_dir,
                 assignments, k + 1)

\* write_files on file system f: output_dir is made, then every item written
write_files(f, assignments, output_dir) ==
  WriteFrom([f EXCEPT !.dirs = @ \cup {PlaceOf(output_dir)}
                                 \cup Ancestors(PlaceOf(output_dir))],
            output_dir, assignments, 1)

(***************************************************************************)
(* Inputs: directory trees and Markdown documents                          *)
(***************************************************************************)
MaxEntries == 3
MaxSections == 2
MaxProse == 4

\* entry names: two plain names, a name with an extension, a dotted name
TreeNames == { <<"s">>, <<"u">>, <<"m", DOT, "p">>, <<DOT, "g">> }

\* A directory tree as the list of its entries in display order, each with its
\* nesting depth: the first entry is at depth 0 and an entry lies at most
\* one level below the entry before it
Trees ==
  UNION { { t \in [1..n -> [depth : 0..(MaxEntries - 1), name : TreeNames]] :
              /\ t[1].depth = 0
              /\ \A i \in 2..n : t[i].depth <= t[i - 1].depth + 1 }
          : n \in 1..MaxEntries }

\* whether a later entry at depth k follows entry i within the same parent
HasLaterSibling(t, i, k) ==
  \E j \in (i + 1)..Len(t) :
    /\ t[j].depth = k
    /\ \A m \in (i + 1)..(j - 1) : t[m].depth > k

RECURSIVE Indent(_, _, _)
\* the indentation groups of entry i from level k on: a vertical bar and
\* three blanks while the ancestor at that level has a later sibling, four
\* blanks once it has none
Indent(t, i, k) ==
  IF k >= t[i].depth THEN <<>>
  ELSE (IF HasLaterSibling(t, i, k) THEN <<VERT, SP, SP, SP>>
        ELSE <<SP, SP, SP, SP>>) \o Indent(t, i, k + 1)

\* the line of entry i: indentation, connector, name
TreeLine(t, i) ==
  Indent(t, i, 0)
    \o (IF HasLaterSibling(t, i, t[i].depth) THEN <<TEE>> ELSE <<ELL>>)
    \o <<HORZ, HORZ, SP>> \o t[i].name

\* the text of a tree: the root marker, then one line per entry
RenderTree(t) ==
  Join(<<<<DOT>>>> \o [i \in 1..Len(t) |-> TreeLine(t, i)], <<NL>>)

\* the lines of prose a document holds above a block
LineKinds == {"text", "name", "padded"}
LineText(kind) ==
  CASE kind = "text" -> <<"t">>
    [] kind = "name" -> <<BT, "a", DOT, "p", BT, ":">>
    [] kind = "padded" -> <<BT, SP, "b", SP, BT, ":">>

\* the fenced blocks a document holds
BlockKinds == {"plain", "comment", "climb", "tree1", "tree2"}
BlockLanguage(kind) ==
  IF kind = "comment" THEN <<"j", "s">> ELSE <<>>
BlockBody(kind) ==
  CASE kind = "plain" -> <<"x", NL>>
    [] kind = "comment" ->
         <<"/", "/", SP, "a", DOT, "p", SP, "o", "r", SP, "b", NL, "y", NL>>
    [] kind = "climb" -> <<"#", SP, DOT, DOT, SLASH, "e", NL>>
    [] kind = "tree1" -> <<DOT, NL, ELL, HORZ, HORZ, SP, "b", DOT, "p", NL>>
    [] kind = "tree2" ->
         <<DOT, NL, TEE, HORZ, HORZ, SP, "s", NL,
           VERT, SP, SP, SP, ELL, HORZ, HORZ, SP, "m", DOT, "p", NL>>
BlockText(kind) ==
  FENCE \o BlockLanguage(kind) \o <<NL>> \o BlockBody(kind) \o FENCE \o <<NL>>

RECURSIVE ProseText(_)
ProseText(prose) ==
  IF prose = <<>> THEN <<>>
  ELSE LineText(Head(prose)) \o <<NL>> \o ProseText(Tail(prose))

RECURSIVE DocText(_)
\* the document of a list of sections, each some prose and then a block
DocText(secs) ==
  IF secs = <<>> THEN <<>>
  ELSE ProseText(Head(secs).prose) \o BlockText(Head(secs).block)
         \o DocText(Tail(secs))

\* a section of the documents piped through main: a content block with or
\* without a line naming a file above it, or a tree
SectionChoices ==
  [prose : {<<>>, <<"name">>}, block : {"plain", "comment", "climb"}]
    \cup [prose : {<<>>}, block : {"tree1", "tree2"}]

\* the documents piped through main: up to MaxSections sections
PipelineSections ==
  UNION { [1..n -> SectionChoices] : n \in 1..MaxSections }

\* the documents that vary the prose above one block: up to MaxProse lines
ContextSections ==
  UNION { { <<[prose |-> p, block |-> b]>> : p \in [1..n -> LineKinds],
                                            b \in {"plain", "comment"} }
          : n \in 0..MaxProse }

OutputDir == <<"o", "u", "t">>

\* the options of a run; <<>> stands for an option that was not given.
\* Without --map the options that only the mapping reads are left out.
ExcludeChoices == { <<>>, << <<"a", DOT, "p">> >>, << <<DOT, DOT, SLASH, "e">> >> }
ExcludeBlockChoices == { <<>>, <<"0">>, <<"1">>, <<"0", ",", SP, "1">> }
ArgChoices ==
  [map : {TRUE}, comments : BOOLEAN, write : BOOLEAN,
   exclude : ExcludeChoices, exclude_block : ExcludeBlockChoices,
   output_dir : {OutputDir}]
  \cup
  [map : {FALSE}, comments : {FALSE}, write : {FALSE},
   exclude : {<<>>}, exclude_block : ExcludeBlockChoices,
   output_dir : {OutputDir}]

NoArgs ==
  [map |-> FALSE, comments |-> FALSE, write |-> FALSE, exclude |-> <<>>,
   exclude_block |-> <<>>, output_dir |-> OutputDir]

(***************************************************************************)
(* main, one action per step; pc is the place the run has reached          *)
(***************************************************************************)
Init ==
  /\ pc = "start"
  /\ args = NoArgs
  /\ markdown_content = <<>>
  /\ special_paths = <<>>
  /\ code_blocks = <<>>
  /\ comments_filenames = <<>>
  /\ special_block_index = NoneIndex
  /\ selected_filenames = <<>>
  /\ file_assignments = <<>>
  /\ fs = EmptyFs
  /\ exit_status = -1
  /\ tree = <<>>
  /\ sections = <<>>

\* parser.parse_args()
ParseArgs ==
  /\ pc = "start"
  /\ \E a \in ArgChoices : args' = a
  /\ pc' = "read"
  /\ UNCHANGED <<markdown_content, special_paths, code_blocks,
                 comments_filenames, special_block_index, selected_filenames,
                 file_assignments, fs, exit_status, tree, sections>>

\* the document is read from the file or from standard input
ReadMarkdown ==
  /\ pc = "read"
  /\ \E secs \in PipelineSections :
       /\ sections' = secs
       /\ markdown_content' = DocText(secs)
  /\ pc' = "parse"
  /\ UNCHANGED <<args, special_paths, code_blocks, comments_filenames,
                 special_block_index, selected_filenames, file_assignments,
                 fs, exit_status, tree>>

\* the call of parse_markdown_code_blocks
ParseMarkdown ==
  /\ pc = "parse"
  /\ LET r == parse_markdown_code_blocks(markdown_content)
     IN /\ special_paths' = r.special_paths
        /\ code_blocks' = r.code_blocks
        /\ comments_filenames' = r.comments_filenames
        /\ special_block_index' = r.special_block_index
  /\ pc' = "filter"
  /\ UNCHANGED <<args, markdown_content, selected_filenames, file_assignments,
                 fs, exit_status, tree, sections>>

\* exclude_indices is set up and the blocks are filtered by index
FilterBlocks ==
  /\ pc = "filter"
  /\ code_blocks' =
       filter_excluded_blocks(code_blocks,
                              ExcludeIndices(args.exclude_block, special_block_index))
  /\ pc' = IF args.map THEN "map" ELSE "print"
  /\ UNCHANGED <<args, markdown_content, special_paths, comments_filenames,
                 special_block_index, selected_filenames, file_assignments,
                 fs, exit_status, tree, sections>>

\* without --map the blocks are printed
PrintBlocks ==
  /\ pc = "print"
  /\ pc' = "done"
  /\ exit_status' = 0
  /\ UNCHANGED <<args, markdown_content, special_paths, code_blocks,
                 comments_filenames, special_block_index, selected_filenames,
                 file_assignments, fs, tree, sections>>

\* the list of filenames is chosen and filtered by path
SelectFilenames ==
  /\ pc = "map"
  /\ selected_filenames' =
       filter_excluded_paths(IF args.comments THEN comments_filenames
                             ELSE special_paths,
                             args.exclude)
  /\ pc' = "check"
  /\ UNCHANGED <<args, markdown_content, special_paths, code_blocks,
                 comments_filenames, special_block_index, file_assignments,
                 fs, exit_status, tree, sections>>

\* the counts differ: sys.exit(1)
Mismatch ==
  /\ pc = "check"
  /\ Len(selected_filenames) # Len(code_blocks)
  /\ pc' = "done"
  /\ exit_status' = 1
  /\ UNCHANGED <<args, markdown_content, special_paths, code_blocks,
                 comments_filenames, special_block_index, selected_filenames,
                 file_assignments, fs, tree, sections>>

\* AssignBlocks without the comparison of the counts
AssignBlocksUnchecked ==
  /\ pc = "check"
  /\ file_assignments' = assign_blocks_to_files(selected_filenames, code_blocks)
  /\ pc' = IF args.write THEN "write" ELSE "preview"
  /\ UNCHANGED <<args, markdown_content, special_paths, code_blocks,
                 comments_filenames, special_block_index, selected_filenames,
                 fs, exit_status, tree, sections>>

\* the counts agree: the call of assign_blocks_to_files
AssignBlocks ==
  /\ pc = "check"
  /\ Len(selected_filenames) = Len(code_blocks)
  /\ file_assignments' = assign_blocks_to_files(selected_filenames, code_blocks)
  /\ pc' = IF args.write THEN "write" ELSE "preview"
  /\ UNCHANGED <<args, markdown_content, special_paths, code_blocks,
                 comments_filenames, special_block_index, selected_filenames,
                 fs, exit_status, tree, sections>>

\* the call of write_files; an error it raises ends the run with status 1
WriteFiles ==
  /\ pc = "write"
  /\ fs' = write_files(fs, file_assignments, args.output_dir)
  /\ exit_status' = IF fs'.failed THEN 1 ELSE 0
  /\ pc' = "done"
  /\ UNCHANGED <<args, markdown_content, special_paths, code_blocks,
                 comments_filenames, special_block_index, selected_filenames,
                 file_assignments, tree, sections>>

\* without --write the assignments are printed
PrintAssignments ==
  /\ pc = "preview"
  /\ pc' = "done"
  /\ exit_status' = 0
  /\ UNCHANGED <<args, markdown_content, special_paths, code_blocks,
                 comments_filenames, special_block_index, selected_filenames,
                 file_assignments, fs, tree, sections>>

Next ==
  \/ ParseArgs
  \/ ReadMarkdown
  \/ ParseMarkdown
  \/ FilterBlocks
  \/ PrintBlocks
  \/ SelectFilenames
  \/ Mismatch
  \/ AssignBlocks
  \/ WriteFiles
  \/ PrintAssignments

Spec == Init /\ [][Next]_vars

(***************************************************************************)
(* parse_special_structure called on the text of a directory tree          *)
(***************************************************************************)
InitTree ==
  /\ pc = "tree"
  /\ tree \in Trees
  /\ args = NoArgs
  /\ markdown_content = <<>>
  /\ special_paths = <<>>
  /\ code_blocks = <<>>
  /\ comments_filenames = <<>>
  /\ special_block_index = NoneIndex
  /\ selected_filenames = <<>>
  /\ file_assignments = <<>>
  /\ fs = EmptyFs
  /\ exit_status = -1
  /\ sections = <<>>

ParseTreeCall ==
  /\ pc = "tree"
  /\ special_paths' = parse_special_structure(RenderTree(tree))
  /\ pc' = "done"
  /\ UNCHANGED <<args, markdown_content, code_blocks, comments_filenames,
                 special_block_index, selected_filenames, file_assignments,
                 fs, exit_status, tree, sections>>

SpecTree == InitTree /\ [][ParseTreeCall]_vars

(***************************************************************************)
(* parse_markdown_code_blocks called on one block below varying prose      *)
(***************************************************************************)
InitContext ==
  /\ pc = "parse"
  /\ sections \in ContextSections
  /\ markdown_content = DocText(sections)
  /\ args = NoArgs
  /\ special_paths = <<>>
  /\ code_blocks = <<>>
  /\ comments_filenames = <<>>
  /\ special_block_index = NoneIndex
  /\ selected_filenames = <<>>
  /\ file_assignments = <<>>
  /\ fs = EmptyFs
  /\ exit_status = -1
  /\ tree = <<>>

SpecContext == InitContext /\ [][ParseMarkdown]_vars

(***************************************************************************)
(* What the inputs are expected to yield, read off the way they were made  *)
(***************************************************************************)
\* the structure blocks among the block kinds, and the paths of their trees
IsTreeKind(kind) == kind \in {"tree1", "tree2"}
TreePathsOf(kind) ==
  IF kind = "tree1" THEN << <<"b", DOT, "p">> >>
  ELSE << <<"s">>, <<"s", SLASH, "m", DOT, "p">> >>

\* the block kinds whose first line is a comment, and the name it carries
IsCommentKind(kind) == kind \in {"comment", "climb"}
CommentNameOf(kind) ==
  IF kind = "comment" THEN <<"a", DOT, "p">> ELSE <<DOT, DOT, SLASH, "e">>

\* the quoted text of a line of prose without the blanks around it
IsNamingLine(kind) == kind \in {"name", "padded"}
TrimmedNameOf(kind) == IF kind = "name" THEN <<"a", DOT, "p">> ELSE <<"b">>

\* the position of section i's block among the content blocks (from 1)
ContentPos(secs, i) ==
  Cardinality({k \in 1..i : ~IsTreeKind(secs[k].block)})

\* the lines of prose within reach of a block: the last three above it
LinesInReach(prose) == {k \in 1..Len(prose) : k > Len(prose) - 3}

\* the nearest line in reach that names a file, 0 if there is none
NearestNamingLine(prose) ==
  LET hits == {k \in LinesInReach(prose) : IsNamingLine(prose[k])}
  IN IF hits = {} THEN 0 ELSE CHOOSE k \in hits : \A h \in hits : k >= h

\* the elements of a list whose 0-based position is not in a set, in order
ElementsNotAt(list, positions) ==
  LET keep == {k \in 0..(Len(list) - 1) : k \notin positions}
      nth(n) == CHOOSE k \in keep : Cardinality({h \in keep : h < k}) = n - 1
  IN [n \in 1..Cardinality(keep) |-> list[nth(n) + 1]]

\* the values of a list as a set
Range(list) == {list[k] : k \in 1..Len(list)}

Parsed == parse_markdown_code_blocks(markdown_content)
ParsedDone == pc \notin {"start", "read", "parse"}
Assigned == pc \in {"write", "preview"} \/ (pc = "done" /\ args.map
               /\ Len(selected_filenames) = Len(code_blocks))

(***************************************************************************)
(* C1: after index-based exclusion the surviving content blocks are        *)
(* exactly the extracted content blocks whose position in the extracted    *)
(* sequence is not in the user's exclude-block set, in their order; adding *)
(* the structure block's ordinal removes no content block.                 *)
(***************************************************************************)
C1_OnlyUserIndicesRemoved ==
  pc \in {"map", "print"} =>
    code_blocks = ElementsNotAt(Parsed.code_blocks,
                                Range(UserExcludeIndices(args.exclude_block)))

(***************************************************************************)
(* C2: with map set, if the selected filenames and the surviving blocks    *)
(* differ in number then no assignment is produced, no file is written and *)
(* the run ends with a non-zero status; an assignment is built, and files  *)
(* written, only when the two numbers are equal.                           *)
(***************************************************************************)
C2_MismatchFailsClosed ==
  /\ (pc = "done" /\ args.map /\ Len(selected_filenames) # Len(code_blocks))
       => (file_assignments = <<>> /\ fs = EmptyFs /\ exit_status = 1)
  /\ (pc \in {"write", "preview"} \/ file_assignments # <<>> \/ fs # EmptyFs)
       => (args.map /\ Len(selected_filenames) = Len(code_blocks))

C2_Witness ==
  /\ pc = "done" /\ args.map /\ args.write
  /\ Len(selected_filenames) # Len(code_blocks)
  /\ Len(selected_filenames) > 0 /\ Len(code_blocks) > 0
  /\ exit_status = 1

(***************************************************************************)
(* C4: a content block that falls back to a synthetic name (no first-line  *)
(* comment, no name in the lines above) is named anonymous-N with N its    *)
(* zero-based position among all fenced blocks, structure blocks included. *)
(***************************************************************************)
C4_AnonymousOrdinal ==
  ParsedDone =>
    \A i \in 1..Len(sections) :
      (sections[i].block = "plain" /\ NearestNamingLine(sections[i].prose) = 0)
        => comments_filenames[ContentPos(sections, i)]
             = <<"a", "n", "o", "n", "y", "m", "o", "u", "s", "-">>
                 \o <<Digits[i]>>

C4_Witness ==
  /\ ParsedDone
  /\ Len(sections) = 2
  /\ IsTreeKind(sections[1].block)
  /\ sections[2] = [prose |-> <<>>, block |-> "plain"]
  /\ comments_filenames = << <<"a", "n", "o", "n", "y", "m", "o", "u", "s", "-", "1">> >>

(***************************************************************************)
(* C6: when the selected filenames hold a path more than once and the      *)
(* counts agree, the assignment holds one entry for that path, with the    *)
(* last block paired with it; the file written there holds that block's    *)
(* content, fewer files are written than blocks survive, and no error is   *)
(* raised.                                                                 *)
(***************************************************************************)
HasDuplicate(list) ==
  \E i, j \in 1..Len(list) : i < j /\ list[i] = list[j]
LastIndexOf(list, x) ==
  CHOOSE k \in 1..Len(list) :
    list[k] = x /\ \A h \in 1..Len(list) : list[h] = x => h <= k

C6_LastWins ==
  (Assigned /\ HasDuplicate(selected_filenames)) =>
    /\ \A k \in 1..Len(selected_filenames) :
         LET path == selected_filenames[k]
             last == code_blocks[LastIndexOf(selected_filenames, path)]
             at == {n \in 1..Len(file_assignments) :
                      file_assignments[n].path = path}
         IN /\ Cardinality(at) = 1
            /\ \A n \in at : file_assignments[n].block = last
            /\ (pc = "done" /\ args.write) =>
                 \E n \in 1..Len(fs.files) :
                   /\ fs.files[n].place
                        = PlaceOf(args.output_dir \o <<SLASH>> \o path)
                   /\ fs.files[n].content = last.content
    /\ Len(file_assignments) < Len(code_blocks)
    /\ (pc = "done" /\ args.write) =>
         /\ exit_status = 0
         /\ ~fs.failed
         /\ Len(fs.files) < Len(code_blocks)
    /\ (pc = "done" /\ ~args.write) => (exit_status = 0 /\ fs = EmptyFs)

C6_Witness ==
  /\ pc = "done" /\ args.write
  /\ Len(selected_filenames) = 2 /\ Len(code_blocks) = 2
  /\ selected_filenames[1] = selected_filenames[2]
  /\ code_blocks[1].content # code_blocks[2].content
  /\ Len(fs.files) = 1
  /\ fs.files[1].content = code_blocks[2].content

(***************************************************************************)
(* C8: of several structure blocks only the first in document order is     *)
(* treated specially: the structure paths and the structure-block ordinal  *)
(* returned are those of the first structure block.                        *)
(***************************************************************************)
C8_FirstStructureBlockWins ==
  ParsedDone =>
    \A i \in 1..Len(sections) :
      (IsTreeKind(sections[i].block)
         /\ \A k \in 1..(i - 1) : ~IsTreeKind(sections[k].block))
        => /\ special_block_index = i - 1
           /\ special_paths = TreePathsOf(sections[i].block)

(***************************************************************************)
(* C9: in comments mode, whenever an assignment is produced and the        *)
(* resolved filenames are pairwise distinct, each path of the assignment   *)
(* is mapped to the block that filename was resolved from.                 *)
(***************************************************************************)
C9_NamesStayWithTheirBlocks ==
  (pc \in {"write", "preview"} /\ args.comments
     /\ ~HasDuplicate(comments_filenames)) =>
    \A n \in 1..Len(file_assignments) :
      \E k \in 1..Len(comments_filenames) :
        /\ comments_filenames[k] = file_assignments[n].path
        /\ Parsed.code_blocks[k] = file_assignments[n].block

(***************************************************************************)
(* C10: in write mode every file written lies inside the output directory: *)
(* every path of the assignment is relative, without a leading slash and   *)
(* without a segment that climbs out ("..").                               *)
(***************************************************************************)
InsideOutputDir(place) ==
  LET root == PlaceOf(args.output_dir)
  IN Len(place) > Len(root) /\ SubSeq(place, 1, Len(root)) = root

C10_WritesStayInside ==
  (pc = "done" /\ args.map /\ args.write) =>
    /\ \A n \in 1..Len(fs.files) : InsideOutputDir(fs.files[n].place)
    /\ \A n \in 1..Len(file_assignments) :
         /\ ~StartsWithAt(file_assignments[n].path, 1, <<SLASH>>)
         /\ UP \notin Range(Split(file_assignments[n].path, SLASH))

(***************************************************************************)
(* C3: for a well-formed tree in which the directory names are unique      *)
(* along every ancestor chain, parse_tree returns one path per entry, in   *)
(* the order of the entries, each the names of the entry's ancestors and   *)
(* then its own, so with as many segments as its depth + 1.                *)
(***************************************************************************)
\* the entry that is entry i's ancestor at depth k: the nearest one above it
AncestorAt(t, i, k) ==
  CHOOSE j \in 1..(i - 1) :
    t[j].depth = k /\ \A h \in (j + 1)..(i - 1) : t[h].depth # k

AncestorNames(t, i) == [k \in 1..t[i].depth |-> t[AncestorAt(t, i, k - 1)].name]
ExpectedPath(t, i) == Join(Append(AncestorNames(t, i), t[i].name), <<SLASH>>)

UniqueAlongChains(t) ==
  \A i \in 1..Len(t) : ~HasDuplicate(AncestorNames(t, i))

\* an entry is a directory with entries in it when the next entry is deeper
HasChildren(t, i) == i < Len(t) /\ t[i + 1].depth > t[i].depth
NoDottedDirectory(t) ==
  \A i \in 1..Len(t) : HasChildren(t, i) => ~Contains(t[i].name, DOT)

PathsFollowTree(t, paths) ==
  /\ Len(paths) = Len(t)
  /\ \A i \in 1..Len(t) :
       /\ paths[i] = ExpectedPath(t, i)
       /\ Len(Split(paths[i], SLASH)) = t[i].depth + 1

C3_EveryUniqueTree ==
  (pc = "done" /\ UniqueAlongChains(tree)) => PathsFollowTree(tree, special_paths)

\* C3 as amended: the same, for the trees in which no entry that has
\* entries below it has a dot in its name
C3_UndottedDirectories ==
  (pc = "done" /\ UniqueAlongChains(tree) /\ NoDottedDirectory(tree))
    => PathsFollowTree(tree, special_paths)

C3_Witness ==
  /\ pc = "done"
  /\ UniqueAlongChains(tree) /\ NoDottedDirectory(tree)
  /\ Len(tree) = 3
  /\ tree[2].depth = 1 /\ tree[3].depth = 0
  /\ Contains(tree[2].name, DOT)
  /\ PathsFollowTree(tree, special_paths)

(***************************************************************************)
(* C5: a content block whose first line is a comment that carries text is  *)
(* recorded under the comment's name (the text after the opener, cut       *)
(* before the first " or ", trimmed) whatever the lines above the fence    *)
(* hold, and its content is left as it is.                                 *)
(***************************************************************************)
C5_CommentPrecedence ==
  ParsedDone =>
    \A i \in 1..Len(sections) :
      IsCommentKind(sections[i].block) =>
        /\ comments_filenames[ContentPos(sections, i)]
             = CommentNameOf(sections[i].block)
        /\ Parsed.code_blocks[ContentPos(sections, i)].content
             = BlockBody(sections[i].block)

C5_Witness ==
  /\ ParsedDone
  /\ sections = <<[prose |-> <<"text", "padded", "name">>, block |-> "comment"]>>
  /\ comments_filenames = << <<"a", DOT, "p">> >>

(***************************************************************************)
(* C7: a content block without a first-line comment is named from the 3    *)
(* lines above its fence, nearest first: the trimmed quoted text of the    *)
(* first of them that holds a quoted segment with a colon after it; lines  *)
(* further up never supply the name, and with no such line the block gets  *)
(* the anonymous-N fallback.                                               *)
(***************************************************************************)
C7_TrimmedContextName ==
  ParsedDone =>
    \A i \in 1..Len(sections) :
      sections[i].block = "plain" =>
        LET near == NearestNamingLine(sections[i].prose)
        IN comments_filenames[ContentPos(sections, i)]
             = IF near = 0
               THEN <<"a", "n", "o", "n", "y", "m", "o", "u", "s", "-">>
                      \o <<Digits[i]>>
               ELSE TrimmedNameOf(sections[i].prose[near])

====
